---- MODULE Spec2Model ----
(***************************************************************************)
(* The acknowledged publish of nats/jetstream/publish.py: Publisher and    *)
(* its coroutine Publisher.publish, with the transport (Client.request)    *)
(* and the scheduler (asyncio.sleep) as the environment.                   *)
(*                                                                         *)
(* Python values are encoded so that TLC can compare them:                 *)
(*   Optional[T]   None is <<>>, a present value v is <<v>>                *)
(*   int / str     an argument that str() is applied to carries its type:  *)
(*                 [t |-> "int", v |-> 5] or [t |-> "str", v |-> "m1"]     *)
(*   dict          a function from its keys to its values                  *)
(***************************************************************************)
EXTENDS Integers, Sequences, FiniteSets, TLC

VARIABLES
    publisher,  \* the Publisher's fields _client and _timeout
    args,       \* per call: the arguments of publish, as the caller holds them
    pc,         \* per call: where the coroutine is
    timeout,    \* per call: the local timeout after line 70
    headers,    \* per call: the local headers after line 89
    it,         \* per call: how many values range(0, retry_attempts) has yielded
    attempt,    \* per call: the loop variable
    requests,   \* per call: the keyword arguments of every client.request made
    replies,    \* per call: what the transport answered to each request
    sleeps,     \* per call: the delay of every asyncio.sleep started
    returned,   \* per call: the PubAck returned (Optional)
    raised      \* per call: the exception raised out of publish (Optional)

vars == <<publisher, args, pc, timeout, headers, it, attempt, requests,
          replies, sleeps, returned, raised>>

----
\* Bounds of the model.

\* retry_attempts ranges over 0 .. MaxRetry
MaxRetry == 3

----
\* Python values.

None == <<>>

Some(v) == <<v>>

IsNone(o) == o = None

Val(o) == o[1]

PyInt(n) == [t |-> "int", v |-> n]

PyStr(s) == [t |-> "str", v |-> s]

Digits == <<"0", "1", "2", "3", "4", "5", "6", "7", "8", "9">>

RECURSIVE IntToStr(_)
\* the decimal digits of a non-negative int
IntToStr(n) ==
    IF n < 10 THEN Digits[n + 1]
    ELSE IntToStr(n \div 10) \o Digits[(n % 10) + 1]

\* str(x) for an int or a str
str(x) == IF x.t = "int" THEN IntToStr(x.v) ELSE x.v

EmptyDict == [k \in {} |-> ""]

\* d.update(e) as a value: the keys of both, e's value where both have one
DictUpdate(d, e) ==
    [k \in (DOMAIN d) \cup (DOMAIN e) |-> IF k \in DOMAIN e THEN e[k] ELSE d[k]]

\* d[k] = v as a value
DictSet(d, k, v) == DictUpdate(d, k :> v)

----
\* The reserved header keys (nats.jetstream.message.Header).

EXPECTED_LAST_MSG_ID == "Nats-Expected-Last-Msg-Id"

EXPECTED_STREAM == "Nats-Expected-Stream"

EXPECTED_LAST_SEQ == "Nats-Expected-Last-Sequence"

EXPECTED_LAST_SUBJECT_SEQUENCE == "Nats-Expected-Last-Subject-Sequence"

ReservedKeys ==
    {EXPECTED_LAST_MSG_ID, EXPECTED_STREAM, EXPECTED_LAST_SEQ,
     EXPECTED_LAST_SUBJECT_SEQUENCE}

----
\* Publisher.publish, lines 69-89: the timeout and the outgoing headers.

\* a variant of lines 69-70 that takes the Publisher's timeout whatever the
\* caller passed
LocalTimeoutOfPublisher(self, a) == self._timeout

\* lines 69-70
LocalTimeout(self, a) ==
    IF IsNone(a.timeout) THEN self._timeout ELSE Val(a.timeout)

\* a variant of the four tests that asks for a true value instead of "is not
\* None": 0 and "" are dropped
SetExpectationIfTrue(extra, key, param) ==
    IF ~IsNone(param) /\ str(Val(param)) \notin {"0", ""}
    THEN DictSet(extra, key, str(Val(param)))
    ELSE extra

\* one "if <parameter> is not None: extra_headers[<key>] = str(<parameter>)"
SetExpectation(extra, key, param) ==
    IF ~IsNone(param) THEN DictSet(extra, key, str(Val(param))) ELSE extra

\* lines 72-83
ExtraHeaders(a) ==
    LET e0 == EmptyDict
        e1 == SetExpectation(e0, EXPECTED_LAST_MSG_ID, a.expected_last_msg_id)
        e2 == SetExpectation(e1, EXPECTED_STREAM, a.expected_stream)
        e3 == SetExpectation(e2, EXPECTED_LAST_SEQ, a.expected_last_sequence)
        e4 == SetExpectation(e3, EXPECTED_LAST_SUBJECT_SEQUENCE,
                             a.expected_last_subject_sequence)
    IN  e4

\* a variant of lines 85-89 that updates the caller's headers with the
\* expectation headers, so that the expectation wins
MergeHeadersExpectationWins(extra, hdrs) ==
    IF Cardinality(DOMAIN extra) > 0
    THEN Some(IF ~IsNone(hdrs) THEN DictUpdate(Val(hdrs), extra) ELSE extra)
    ELSE hdrs

\* lines 85-89: the headers the requests carry, given extra_headers and the
\* caller's headers
MergeHeaders(extra, hdrs) ==
    IF Cardinality(DOMAIN extra) > 0
    THEN Some(IF ~IsNone(hdrs) THEN DictUpdate(extra, Val(hdrs)) ELSE extra)
    ELSE hdrs

\* lines 72-89
BuildHeaders(a) == MergeHeaders(ExtraHeaders(a), a.headers)

\* lines 93-98: the arguments of client.request
RequestArgs(a, tmo, hdrs) ==
    [subject |-> a.subject, payload |-> a.payload, timeout |-> tmo,
     headers |-> hdrs]

----
\* The reply: parse_json_response(msg.data, PubAck) and the PubAck fields.

\* the value of a JSON object's key; a missing key and a null both give None
JsonGet(obj, key) == IF key \in DOMAIN obj THEN obj[key] ELSE None

\* line 100, with the field metadata of lines 21-33
parse_json_response(data) ==
    [stream |-> JsonGet(data, "stream"),
     sequence |-> JsonGet(data, "seq"),
     duplicate |-> JsonGet(data, "duplicate"),
     domain |-> JsonGet(data, "domain")]

\* a variant of line 101 that tests the wrong field
IsInvalidAckByDomain(pub_ack) == IsNone(pub_ack.domain)

\* line 101
IsInvalidAck(pub_ack) == IsNone(pub_ack.stream)

\* a variant of line 106 that also waits after the last attempt
ShouldWaitAfterLast(att, retry_attempts) == att < retry_attempts

\* line 106
ShouldWait(att, retry_attempts) == att < retry_attempts - 1

\* a variant of line 91 with range(0, retry_attempts + 1)
RangeHasNextLong(n, retry_attempts) == n < retry_attempts + 1

\* a variant of line 91 with range(0, retry_attempts - 1)
RangeHasNextShort(n, retry_attempts) == n < retry_attempts - 1

\* line 91: range(0, retry_attempts) has a next value after n values
RangeHasNext(n, retry_attempts) == n < retry_attempts

----
\* The environment: what callers pass and what the transport answers.

\* Publisher.__init__'s default timeout
DefaultTimeout == 1

\* a field of a JSON object: None when the key is missing, Some(None) for a
\* null, Some(Some(v)) for a value
WithField(obj, key, f) == IF IsNone(f) THEN obj ELSE DictSet(obj, key, Val(f))

\* the reply bodies the server may send (msg.data, as the JSON object it holds)
AckBodies ==
    { WithField(
        WithField(("seq" :> Some(q)) @@ ("duplicate" :> Some(d)), "stream", s),
        "domain", m) :
        s \in {None, Some(None), Some(Some("ORDERS"))},
        q \in {1, 42},
        d \in BOOLEAN,
        m \in {None, Some(Some("hub"))} }

\* the errors of client.request that are not NoRespondersError: a timeout, a
\* lost connection, a rejected precondition
OtherErrors == {"TimeoutError", "ConnectionClosedError", "APIError"}

\* the headers a caller passes
CallerHeaders ==
    { None,
      Some(EmptyDict),
      Some("X-Trace" :> "t1"),
      Some(EXPECTED_LAST_SEQ :> "9"),
      Some((EXPECTED_STREAM :> "AUDIT") @@ ("X-Trace" :> "t1")) }

\* the arguments of one publish call
Args ==
    [subject : {"orders.new"},
     payload : {"data"},
     id : {None, Some("id-1")},
     timeout : {None, Some(5)},
     headers : CallerHeaders,
     expected_last_msg_id : {None, Some(PyStr("m1"))},
     expected_stream : {None, Some(PyStr("ORDERS"))},
     expected_last_sequence : {None, Some(PyInt(0)), Some(PyInt(5))},
     expected_last_subject_sequence : {None, Some(PyInt(12))},
     retry_attempts : 0 .. MaxRetry,
     retry_wait : {250}]

\* the arguments of the calls that run concurrently
ConcurrentArgs ==
    { a \in Args :
        /\ a.id = Some("id-1")
        /\ a.headers = Some("X-Trace" :> "t1")
        /\ a.expected_last_msg_id = None
        /\ a.expected_stream = Some(PyStr("ORDERS"))
        /\ a.expected_last_sequence = None
        /\ a.expected_last_subject_sequence = None }

----
\* The state after Publisher(client) and before the calls in `calls` start.

InitCalls(calls, argset) ==
    /\ publisher = [_client |-> "nc", _timeout |-> DefaultTimeout]
    /\ args \in [calls -> argset]
    /\ pc = [c \in calls |-> "start"]
    /\ timeout = [c \in calls |-> None]
    /\ headers = [c \in calls |-> None]
    /\ it = [c \in calls |-> 0]
    /\ attempt = [c \in calls |-> None]
    /\ requests = [c \in calls |-> <<>>]
    /\ replies = [c \in calls |-> <<>>]
    /\ sleeps = [c \in calls |-> <<>>]
    /\ returned = [c \in calls |-> None]
    /\ raised = [c \in calls |-> None]

\* one publish call
Init == InitCalls({1}, Args)

\* two publish calls on the same Publisher
InitConcurrent == InitCalls({1, 2}, ConcurrentArgs)

Calls == DOMAIN pc

----
\* The steps of Publisher.publish.

\* a variant of lines 85-89 that merges into the caller's mapping
\* (headers.update(extra_headers)) instead of into extra_headers
PublishIntoCallerHeaders(c) ==
    /\ pc[c] = "start"
    /\ timeout' = [timeout EXCEPT ![c] = Some(LocalTimeout(publisher, args[c]))]
    /\ LET extra == ExtraHeaders(args[c])
           merged == IF Cardinality(DOMAIN extra) > 0 /\ ~IsNone(args[c].headers)
                     THEN Some(DictUpdate(Val(args[c].headers), extra))
                     ELSE MergeHeaders(extra, args[c].headers)
       IN  /\ headers' = [headers EXCEPT ![c] = merged]
           /\ args' = [args EXCEPT ![c].headers =
                  IF IsNone(args[c].headers) THEN None ELSE merged]
    /\ pc' = [pc EXCEPT ![c] = "for"]
    /\ UNCHANGED <<publisher, it, attempt, requests, replies, sleeps,
                   returned, raised>>

\* lines 69-89: the call starts; timeout and headers are computed
Publish(c) ==
    /\ pc[c] = "start"
    /\ timeout' = [timeout EXCEPT ![c] = Some(LocalTimeout(publisher, args[c]))]
    /\ headers' = [headers EXCEPT ![c] = BuildHeaders(args[c])]
    /\ pc' = [pc EXCEPT ![c] = "for"]
    /\ UNCHANGED <<publisher, args, it, attempt, requests, replies, sleeps,
                   returned, raised>>

\* a variant of lines 91-98 that keeps the loop counter on the Publisher, where
\* every call running on it advances it
RequestSharedCounter(c) ==
    /\ pc[c] = "for"
    /\ RangeHasNext(it[c], args[c].retry_attempts)
    /\ attempt' = [attempt EXCEPT ![c] = Some(it[c])]
    /\ it' = [d \in DOMAIN it |-> it[d] + 1]
    /\ requests' = [requests EXCEPT ![c] =
           Append(@, RequestArgs(args[c], Val(timeout[c]), headers[c]))]
    /\ pc' = [pc EXCEPT ![c] = "request"]
    /\ UNCHANGED <<publisher, args, timeout, headers, replies, sleeps,
                   returned, raised>>

\* lines 91-98: the loop yields the next attempt and the request is sent
Request(c) ==
    /\ pc[c] = "for"
    /\ RangeHasNext(it[c], args[c].retry_attempts)
    /\ attempt' = [attempt EXCEPT ![c] = Some(it[c])]
    /\ it' = [it EXCEPT ![c] = it[c] + 1]
    /\ requests' = [requests EXCEPT ![c] =
           Append(@, RequestArgs(args[c], Val(timeout[c]), headers[c]))]
    /\ pc' = [pc EXCEPT ![c] = "request"]
    /\ UNCHANGED <<publisher, args, timeout, headers, replies, sleeps,
                   returned, raised>>

\* a variant of lines 91, 109 without the raise: the call falls off the loop
\* and returns nothing
ExhaustedWithoutRaise(c) ==
    /\ pc[c] = "for"
    /\ ~RangeHasNext(it[c], args[c].retry_attempts)
    /\ pc' = [pc EXCEPT ![c] = "done"]
    /\ UNCHANGED <<publisher, args, timeout, headers, it, attempt, requests,
                   replies, sleeps, returned, raised>>

\* lines 91, 109: the loop is exhausted
Exhausted(c) ==
    /\ pc[c] = "for"
    /\ ~RangeHasNext(it[c], args[c].retry_attempts)
    /\ raised' = [raised EXCEPT ![c] = Some("NoStreamResponseError")]
    /\ pc' = [pc EXCEPT ![c] = "done"]
    /\ UNCHANGED <<publisher, args, timeout, headers, it, attempt, requests,
                   replies, sleeps, returned>>

\* a variant of lines 100-104 without the return: the loop goes on after an ack
ReplyWithoutReturn(c, data) ==
    /\ pc[c] = "request"
    /\ replies' = [replies EXCEPT ![c] =
           Append(@, [error |-> None, data |-> Some(data)])]
    /\ LET pub_ack == parse_json_response(data)
       IN  IF IsInvalidAck(pub_ack)
           THEN /\ raised' = [raised EXCEPT ![c] = Some("InvalidAckError")]
                /\ pc' = [pc EXCEPT ![c] = "done"]
           ELSE /\ pc' = [pc EXCEPT ![c] = "for"]
                /\ UNCHANGED raised
    /\ UNCHANGED <<publisher, args, timeout, headers, it, attempt, requests,
                   sleeps, returned>>

\* a variant of lines 100-104 without the check of lines 101-102
ReplyUnvalidated(c, data) ==
    /\ pc[c] = "request"
    /\ replies' = [replies EXCEPT ![c] =
           Append(@, [error |-> None, data |-> Some(data)])]
    /\ returned' = [returned EXCEPT ![c] = Some(parse_json_response(data))]
    /\ pc' = [pc EXCEPT ![c] = "done"]
    /\ UNCHANGED <<publisher, args, timeout, headers, it, attempt, requests,
                   sleeps, raised>>

\* lines 100-104: a reply arrives; it is parsed and returned, or is invalid
Reply(c, data) ==
    /\ pc[c] = "request"
    /\ replies' = [replies EXCEPT ![c] =
           Append(@, [error |-> None, data |-> Some(data)])]
    /\ LET pub_ack == parse_json_response(data)
       IN  IF IsInvalidAck(pub_ack)
           THEN /\ raised' = [raised EXCEPT ![c] = Some("InvalidAckError")]
                /\ UNCHANGED returned
           ELSE /\ returned' = [returned EXCEPT ![c] = Some(pub_ack)]
                /\ UNCHANGED raised
    /\ pc' = [pc EXCEPT ![c] = "done"]
    /\ UNCHANGED <<publisher, args, timeout, headers, it, attempt, requests,
                   sleeps>>

\* a variant of lines 105-107 that starts the sleep without awaiting it: the
\* loop goes on at once
NoRespondersNoAwait(c) ==
    /\ pc[c] = "request"
    /\ replies' = [replies EXCEPT ![c] =
           Append(@, [error |-> Some("NoRespondersError"), data |-> None])]
    /\ IF ShouldWait(Val(attempt[c]), args[c].retry_attempts)
       THEN sleeps' = [sleeps EXCEPT ![c] = Append(@, args[c].retry_wait)]
       ELSE UNCHANGED sleeps
    /\ pc' = [pc EXCEPT ![c] = "for"]
    /\ UNCHANGED <<publisher, args, timeout, headers, it, attempt, requests,
                   returned, raised>>

\* lines 105-107: the request fails with NoRespondersError
NoResponders(c) ==
    /\ pc[c] = "request"
    /\ replies' = [replies EXCEPT ![c] =
           Append(@, [error |-> Some("NoRespondersError"), data |-> None])]
    /\ IF ShouldWait(Val(attempt[c]), args[c].retry_attempts)
       THEN /\ sleeps' = [sleeps EXCEPT ![c] = Append(@, args[c].retry_wait)]
            /\ pc' = [pc EXCEPT ![c] = "sleep"]
       ELSE /\ pc' = [pc EXCEPT ![c] = "for"]
            /\ UNCHANGED sleeps
    /\ UNCHANGED <<publisher, args, timeout, headers, it, attempt, requests,
                   returned, raised>>

\* line 107: asyncio.sleep(retry_wait) is over
Wake(c) ==
    /\ pc[c] = "sleep"
    /\ pc' = [pc EXCEPT ![c] = "for"]
    /\ UNCHANGED <<publisher, args, timeout, headers, it, attempt, requests,
                   replies, sleeps, returned, raised>>

\* a variant of line 105 that catches every exception
TransportErrorRetried(c, err) ==
    /\ pc[c] = "request"
    /\ replies' = [replies EXCEPT ![c] =
           Append(@, [error |-> Some(err), data |-> None])]
    /\ IF ShouldWait(Val(attempt[c]), args[c].retry_attempts)
       THEN /\ sleeps' = [sleeps EXCEPT ![c] = Append(@, args[c].retry_wait)]
            /\ pc' = [pc EXCEPT ![c] = "sleep"]
       ELSE /\ pc' = [pc EXCEPT ![c] = "for"]
            /\ UNCHANGED sleeps
    /\ UNCHANGED <<publisher, args, timeout, headers, it, attempt, requests,
                   returned, raised>>

\* lines 93-98, 105: the request fails with an error the loop does not catch
TransportError(c, err) ==
    /\ pc[c] = "request"
    /\ replies' = [replies EXCEPT ![c] =
           Append(@, [error |-> Some(err), data |-> None])]
    /\ raised' = [raised EXCEPT ![c] = Some(err)]
    /\ pc' = [pc EXCEPT ![c] = "done"]
    /\ UNCHANGED <<publisher, args, timeout, headers, it, attempt, requests,
                   sleeps, returned>>

Next ==
    \/ \E c \in Calls : Publish(c)
    \/ \E c \in Calls : Request(c)
    \/ \E c \in Calls : Exhausted(c)
    \/ \E c \in Calls : \E data \in AckBodies : Reply(c, data)
    \/ \E c \in Calls : NoResponders(c)
    \/ \E c \in Calls : Wake(c)
    \/ \E c \in Calls : \E err \in OtherErrors : TransportError(c, err)

Spec == Init /\ [][Next]_vars

SpecConcurrent == InitConcurrent /\ [][Next]_vars

----
\* What the properties below read off a call.

Done(c) == pc[c] = "done"

NoResp == [error |-> Some("NoRespondersError"), data |-> None]

\* the first n replies of call c were all no-responders failures
AllNoResponders(c, n) == \A i \in 1 .. n : replies[c][i] = NoResp

\* reply r is a message whose decoded stream is / is not null
IsMsg(r) == ~IsNone(r.data)

NullStream(r) == IsMsg(r) /\ IsNone(parse_json_response(Val(r.data)).stream)

ValidAck(r) == IsMsg(r) /\ ~IsNone(parse_json_response(Val(r.data)).stream)

\* reply r is a transport error other than no-responders
OtherError(r) == ~IsNone(r.error) /\ r.error # Some("NoRespondersError")

Min(a, b) == IF a < b THEN a ELSE b

----
\* C1: with retry_attempts = N >= 1 and every request failing with
\* no-responders, a call makes exactly N requests, sleeps retry_wait after each
\* of the first N-1 failures and never after the last, and ends with
\* NoStreamResponseError.
C1_ExhaustedAfterN ==
    \A c \in Calls :
        LET N == args[c].retry_attempts
            k == Len(replies[c])
        IN  (N >= 1 /\ AllNoResponders(c, k)) =>
                /\ k <= N
                /\ Len(sleeps[c]) = Min(k, N - 1)
                /\ \A i \in 1 .. Len(sleeps[c]) : sleeps[c][i] = args[c].retry_wait
                /\ pc[c] = "sleep" => k < N
                /\ returned[c] = None
                /\ Done(c) =>
                       /\ k = N
                       /\ Len(requests[c]) = N
                       /\ raised[c] = Some("NoStreamResponseError")
                /\ ~Done(c) => raised[c] = None

C1_Witness ==
    \E c \in Calls :
        /\ Done(c)
        /\ args[c].retry_attempts = 3
        /\ AllNoResponders(c, Len(replies[c]))
        /\ Len(requests[c]) = 3
        /\ Len(sleeps[c]) = 2
        /\ raised[c] = Some("NoStreamResponseError")

\* C2: when the first k < N requests fail with no-responders and request k+1
\* is answered by an ack with a stream, the call has made exactly k+1
\* requests, has returned that ack, and makes no request afterwards.
C2_SuccessAfterK ==
    \A c \in Calls :
        \A j \in 1 .. Len(replies[c]) :
            (AllNoResponders(c, j - 1) /\ ValidAck(replies[c][j])) =>
                /\ j - 1 < args[c].retry_attempts
                /\ Done(c)
                /\ Len(replies[c]) = j
                /\ Len(requests[c]) = j
                /\ returned[c] = Some(parse_json_response(Val(replies[c][j].data)))
                /\ raised[c] = None

C2_Witness ==
    \E c \in Calls :
        /\ Len(replies[c]) = 3
        /\ AllNoResponders(c, 2)
        /\ ValidAck(replies[c][3])
        /\ Len(requests[c]) = 3
        /\ ~IsNone(returned[c])
        /\ Val(returned[c]).stream = Some("ORDERS")

\* C3: a transport error other than no-responders, on any attempt, ends the
\* call with that error: no sleep and no request follow it, and it becomes
\* neither NoStreamResponseError nor a PubAck.
C3_OtherErrorPropagates ==
    \A c \in Calls :
        \A j \in 1 .. Len(replies[c]) :
            OtherError(replies[c][j]) =>
                /\ Done(c)
                /\ Len(replies[c]) = j
                /\ Len(requests[c]) = j
                /\ Len(sleeps[c]) = j - 1
                /\ raised[c] = replies[c][j].error
                /\ returned[c] = None

C3_Witness ==
    \E c \in Calls :
        /\ args[c].retry_attempts = 3
        /\ Len(replies[c]) = 2
        /\ replies[c][2].error = Some("TimeoutError")
        /\ raised[c] = Some("TimeoutError")
        /\ Len(requests[c]) = 2
        /\ Done(c)

\* C4: a reply whose decoded stream is null or absent, on any attempt and
\* whatever its other fields, ends the call with InvalidAckError: no request
\* and no sleep follow it, and the call never ends with NoStreamResponseError.
C4_NullStreamIsInvalidAck ==
    \A c \in Calls :
        \A j \in 1 .. Len(replies[c]) :
            NullStream(replies[c][j]) =>
                /\ Done(c)
                /\ Len(replies[c]) = j
                /\ Len(requests[c]) = j
                /\ Len(sleeps[c]) = j - 1
                /\ raised[c] = Some("InvalidAckError")
                /\ returned[c] = None

C4_Witness ==
    \E c \in Calls :
        /\ args[c].retry_attempts = 3
        /\ Len(replies[c]) = 2
        /\ IsMsg(replies[c][2])
        /\ "stream" \notin DOMAIN Val(replies[c][2].data)
        /\ JsonGet(Val(replies[c][2].data), "domain") = Some("hub")
        /\ raised[c] = Some("InvalidAckError")
        /\ Done(c)

\* C5: a call has returned a PubAck exactly when one of its requests was
\* answered by a reply whose decoded stream is not null; the PubAck is the
\* decoded reply, field by field; a call that ended without such a reply ended
\* with an exception and returned nothing.
C5_AckIffValidReply ==
    \A c \in Calls :
        /\ ~IsNone(returned[c]) <=>
               \E j \in 1 .. Len(replies[c]) : ValidAck(replies[c][j])
        /\ ~IsNone(returned[c]) =>
               LET data == Val(replies[c][Len(replies[c])].data)
                   ack == Val(returned[c])
               IN  /\ ack.stream = JsonGet(data, "stream")
                   /\ ack.sequence = JsonGet(data, "seq")
                   /\ ack.duplicate = JsonGet(data, "duplicate")
                   /\ ack.domain = JsonGet(data, "domain")
                   /\ ack = parse_json_response(data)
                   /\ Done(c)
                   /\ raised[c] = None
        /\ Done(c) => (IsNone(returned[c]) <=> ~IsNone(raised[c]))
        /\ ~Done(c) => (IsNone(returned[c]) /\ IsNone(raised[c]))

C5_Witness ==
    \E c \in Calls :
        /\ ~IsNone(returned[c])
        /\ Val(returned[c]) =
               [stream |-> Some("ORDERS"), sequence |-> Some(42),
                duplicate |-> Some(FALSE), domain |-> None]
        /\ Len(replies[c]) = 2

----
\* C6: a message id passed to publish reaches the transport with every
\* request, in a field of its own.
C6_IdConveyed ==
    \A c \in Calls :
        \A i \in 1 .. Len(requests[c]) :
            ~IsNone(args[c].id) =>
                \E f \in (DOMAIN requests[c][i]) \ {"subject", "payload", "timeout", "headers"} :
                    requests[c][i][f] = args[c].id

\* C7: a call with retry_attempts = 0 does not end before it has made a
\* request.
C7_ZeroStillRequests ==
    \A c \in Calls :
        (args[c].retry_attempts = 0 /\ Done(c)) => Len(requests[c]) >= 1

----
\* What the header properties read off the arguments.

\* the expectation parameter that belongs to a reserved key
ParamOf(a, key) ==
    CASE key = EXPECTED_LAST_MSG_ID -> a.expected_last_msg_id
      [] key = EXPECTED_STREAM -> a.expected_stream
      [] key = EXPECTED_LAST_SEQ -> a.expected_last_sequence
      [] key = EXPECTED_LAST_SUBJECT_SEQUENCE -> a.expected_last_subject_sequence

\* the text of the parameter values in use
Shown(x) ==
    CASE x.t = "str" -> x.v
      [] x.t = "int" /\ x.v = 0 -> "0"
      [] x.t = "int" /\ x.v = 5 -> "5"
      [] x.t = "int" /\ x.v = 12 -> "12"

AnyExpectation(a) == \E k \in ReservedKeys : ~IsNone(ParamOf(a, k))

\* the reserved keys among the caller's headers
CallerReserved(a) ==
    IF IsNone(a.headers) THEN {} ELSE (DOMAIN Val(a.headers)) \cap ReservedKeys

\* C8: when an expectation parameter is set and the caller's headers hold a
\* reserved key, every request carries the caller's value under each of the
\* caller's keys, and every expectation header the caller does not override.
C8_CallerHeaderWins ==
    \A c \in Calls :
        \A i \in 1 .. Len(requests[c]) :
            LET a == args[c]
                out == requests[c][i].headers
            IN  (AnyExpectation(a) /\ CallerReserved(a) # {}) =>
                    /\ ~IsNone(out)
                    /\ \A k \in DOMAIN Val(a.headers) :
                           k \in DOMAIN Val(out) /\ Val(out)[k] = Val(a.headers)[k]
                    /\ \A k \in ReservedKeys \ DOMAIN Val(a.headers) :
                           IF IsNone(ParamOf(a, k))
                           THEN k \notin DOMAIN Val(out)
                           ELSE k \in DOMAIN Val(out)
                                /\ Val(out)[k] = Shown(Val(ParamOf(a, k)))

C8_Witness ==
    \E c \in Calls :
        /\ Len(requests[c]) = 2
        /\ args[c].expected_stream = Some(PyStr("ORDERS"))
        /\ args[c].expected_last_sequence = Some(PyInt(5))
        /\ args[c].headers = Some((EXPECTED_STREAM :> "AUDIT") @@ ("X-Trace" :> "t1"))
        /\ requests[c][2].headers =
               Some((EXPECTED_STREAM :> "AUDIT") @@ ("X-Trace" :> "t1")
                    @@ (EXPECTED_LAST_SEQ :> "5"))

\* C9: when the caller's headers hold no reserved key, every request carries
\* a reserved key exactly when its expectation parameter was passed, with the
\* parameter's text as value; when no expectation parameter was passed, every
\* request carries the caller's headers as they are (None included).
C9_ExpectationHeaders ==
    \A c \in Calls :
        \A i \in 1 .. Len(requests[c]) :
            LET a == args[c]
                out == requests[c][i].headers
            IN  /\ CallerReserved(a) = {} =>
                       \A k \in ReservedKeys :
                           IF IsNone(ParamOf(a, k))
                           THEN IsNone(out) \/ k \notin DOMAIN Val(out)
                           ELSE /\ ~IsNone(out)
                                /\ k \in DOMAIN Val(out)
                                /\ Val(out)[k] = Shown(Val(ParamOf(a, k)))
                /\ ~AnyExpectation(a) => out = a.headers

C9_Witness ==
    \E c \in Calls :
        /\ Len(requests[c]) = 1
        /\ args[c].headers = None
        /\ args[c].expected_last_sequence = Some(PyInt(5))
        /\ args[c].expected_last_subject_sequence = Some(PyInt(12))
        /\ args[c].expected_stream = None
        /\ args[c].expected_last_msg_id = None
        /\ requests[c][1].headers =
               Some((EXPECTED_LAST_SEQ :> "5") @@ (EXPECTED_LAST_SUBJECT_SEQUENCE :> "12"))

\* the other half of C9: nothing to add, the caller's headers go out unchanged
C9_WitnessNoExpectation ==
    \E c \in Calls :
        /\ Len(requests[c]) = 1
        /\ ~AnyExpectation(args[c])
        /\ args[c].headers = None
        /\ requests[c][1].headers = None

----
\* What a call's own retry_attempts and own replies determine.

\* the call has ended as N and the replies rs say it must
EndsAsOwnRepliesSay(c, N, rs) ==
    LET k == Len(rs)
    IN  /\ Len(requests[c]) = k
        /\ IF k > 0 /\ ValidAck(rs[k])
           THEN returned[c] = Some(parse_json_response(Val(rs[k].data)))
                /\ raised[c] = None
           ELSE IF k > 0 /\ NullStream(rs[k])
           THEN returned[c] = None /\ raised[c] = Some("InvalidAckError")
           ELSE IF k > 0 /\ OtherError(rs[k])
           THEN returned[c] = None /\ raised[c] = rs[k].error
           ELSE /\ returned[c] = None
                /\ raised[c] = Some("NoStreamResponseError")
                /\ k = (IF N > 0 THEN N ELSE 0)

\* the call goes on as N and the replies rs say it must
RunsAsOwnRepliesSay(c, N, rs) ==
    LET k == Len(rs)
    IN  /\ \A i \in 1 .. k : rs[i] = NoResp
        /\ k <= N
        /\ returned[c] = None /\ raised[c] = None
        /\ Len(requests[c]) \in {k, k + 1}
        /\ Len(requests[c]) <= N
        /\ Len(sleeps[c]) = (IF N = 0 THEN 0 ELSE Min(k, N - 1))
        /\ pc[c] = "request" <=> Len(requests[c]) = k + 1

\* C10: with two calls running on one Publisher, in every interleaving each
\* call's requests and outcome are those its own retry_attempts and the
\* replies to its own requests determine; two calls with the same
\* retry_attempts and the same replies are in the same place with the same
\* outcome; the Publisher's fields stay as constructed.
C10_CallsIndependent ==
    /\ publisher = [_client |-> "nc", _timeout |-> DefaultTimeout]
    /\ \A c \in Calls :
           IF Done(c)
           THEN EndsAsOwnRepliesSay(c, args[c].retry_attempts, replies[c])
           ELSE pc[c] # "start" =>
                    RunsAsOwnRepliesSay(c, args[c].retry_attempts, replies[c])
    /\ \A c, d \in Calls :
           (/\ args[c].retry_attempts = args[d].retry_attempts
            /\ replies[c] = replies[d]
            /\ Done(c) /\ Done(d)) =>
               /\ Len(requests[c]) = Len(requests[d])
               /\ Len(sleeps[c]) = Len(sleeps[d])
               /\ returned[c] = returned[d]
               /\ raised[c] = raised[d]

\* both calls are under way at once, then end differently
C10_Witness ==
    /\ Cardinality(Calls) = 2
    /\ \E c, d \in Calls :
           /\ c # d
           /\ Done(c) /\ Done(d)
           /\ args[c].retry_attempts = 3 /\ args[d].retry_attempts = 2
           /\ Len(requests[c]) = 3 /\ Len(requests[d]) = 2
           /\ raised[c] = Some("NoStreamResponseError")
           /\ ~IsNone(returned[d])

\* the two calls are between their first and last request at the same time
C10_WitnessInterleaved ==
    /\ Cardinality(Calls) = 2
    /\ \A c \in Calls : pc[c] = "sleep" /\ Len(requests[c]) = 1

----
\* C11: a call that ended with NoStreamResponseError has made exactly
\* retry_attempts requests and every one of them failed with no-responders;
\* a call that got a reply, or any other transport error, did not end so.
C11_NoStreamResponseOnlyAfterExhaustion ==
    \A c \in Calls :
        /\ raised[c] = Some("NoStreamResponseError") =>
               /\ Done(c)
               /\ Len(requests[c]) = args[c].retry_attempts
               /\ Len(replies[c]) = args[c].retry_attempts
               /\ AllNoResponders(c, Len(replies[c]))
        /\ (\E j \in 1 .. Len(replies[c]) :
                IsMsg(replies[c][j]) \/ OtherError(replies[c][j])) =>
               raised[c] # Some("NoStreamResponseError")

C11_Witness ==
    \E c \in Calls :
        /\ raised[c] = Some("NoStreamResponseError")
        /\ args[c].retry_attempts = 2
        /\ Len(requests[c]) = 2
        /\ replies[c] = <<NoResp, NoResp>>

----
\* What C12 asks of a state and of a step of call c.

\* at most one request is outstanding; while one is, every earlier request
\* failed with no-responders and was followed by a sleep
OneOutstanding(c) ==
    /\ Len(requests[c]) - Len(replies[c]) \in {0, 1}
    /\ Len(requests[c]) - Len(replies[c]) = 1 <=> pc[c] = "request"
    /\ pc[c] = "request" =>
           /\ AllNoResponders(c, Len(replies[c]))
           /\ Len(sleeps[c]) = Len(replies[c])

\* a step that issues a request issues one, from the head of the loop, with
\* no sleep running; a failed request that is not the last is followed by a
\* sleep; a sleep ends at the head of the loop
SequentialStep(c) ==
    /\ requests'[c] # requests[c] =>
           /\ pc[c] = "for"
           /\ Len(requests'[c]) = Len(requests[c]) + 1
           /\ Len(replies[c]) = Len(requests[c])
           /\ Len(sleeps[c]) = Len(replies[c])
    /\ (pc[c] = "request" /\ pc'[c] = "for") =>
           Len(requests[c]) = args[c].retry_attempts
    /\ (pc[c] = "request" /\ pc'[c] = "sleep") =>
           /\ replies'[c] = Append(replies[c], NoResp)
           /\ Len(sleeps'[c]) = Len(sleeps[c]) + 1
    /\ pc[c] = "sleep" => (pc'[c] \in {"sleep", "for"} /\ requests'[c] = requests[c])

\* C12: the attempts of a call are sequential: at most one request of the
\* call is outstanding, and request i+1 is issued only after request i failed
\* with no-responders and the sleep that follows it is over.
C12_AttemptsSequential ==
    /\ [](\A c \in Calls : OneOutstanding(c))
    /\ [][\A c \in Calls : SequentialStep(c)]_vars

C12_Witness ==
    \E c \in Calls :
        /\ pc[c] = "request"
        /\ Len(requests[c]) = 3
        /\ replies[c] = <<NoResp, NoResp>>
        /\ Len(sleeps[c]) = 2

----
\* C13: subject, payload, headers and timeout are fixed when the call starts
\* and are the same on every request of the call; the timeout is the caller's
\* when the caller gave one and the Publisher's otherwise.
C13_RequestsIdentical ==
    \A c \in Calls :
        /\ \A i \in 1 .. Len(requests[c]) :
               /\ requests[c][i] = requests[c][1]
               /\ requests[c][i].subject = args[c].subject
               /\ requests[c][i].payload = args[c].payload
               /\ requests[c][i].headers = headers[c]
               /\ requests[c][i].timeout =
                      (IF IsNone(args[c].timeout)
                       THEN publisher._timeout
                       ELSE Val(args[c].timeout))
        /\ pc[c] # "start" =>
               /\ timeout[c] =
                      Some(IF IsNone(args[c].timeout)
                           THEN publisher._timeout
                           ELSE Val(args[c].timeout))
               /\ pc[c] = "request" => Len(requests[c]) >= 1

\* three requests with the caller's timeout and merged headers
C13_Witness ==
    \E c \in Calls :
        /\ Len(requests[c]) = 3
        /\ args[c].timeout = Some(5)
        /\ requests[c][3].timeout = 5
        /\ requests[c][3] = requests[c][1]
        /\ requests[c][3].headers =
               Some((EXPECTED_STREAM :> "ORDERS") @@ ("X-Trace" :> "t1"))

\* three requests with the Publisher's timeout
C13_WitnessDefaultTimeout ==
    \E c \in Calls :
        /\ Len(requests[c]) = 3
        /\ args[c].timeout = None
        /\ requests[c][3].timeout = DefaultTimeout

----
\* C14: no step of a call, whatever its outcome, changes the Publisher's
\* client or timeout, or the arguments the caller holds; in particular the
\* caller's headers mapping stays as passed when expectation headers are
\* merged with it.
C14_NoOutsideChange ==
    /\ [](publisher = [_client |-> "nc", _timeout |-> DefaultTimeout])
    /\ [][/\ publisher' = publisher
          /\ \A c \in Calls : args'[c].headers = args[c].headers
          /\ args' = args]_vars

\* a call that merged expectation headers with the caller's has ended, and
\* the caller's mapping is as passed
C14_Witness ==
    \E c \in Calls :
        /\ Done(c)
        /\ ~IsNone(returned[c])
        /\ args[c].headers = Some("X-Trace" :> "t1")
        /\ headers[c] = Some(("X-Trace" :> "t1") @@ (EXPECTED_LAST_SEQ :> "5"))
        /\ publisher._timeout = DefaultTimeout

\* the same after an exhausted call
C14_WitnessExhausted ==
    \E c \in Calls :
        /\ Done(c)
        /\ raised[c] = Some("NoStreamResponseError")
        /\ Len(requests[c]) = 2
        /\ args[c].headers = Some("X-Trace" :> "t1")
        /\ headers[c] = Some(("X-Trace" :> "t1") @@ (EXPECTED_LAST_SEQ :> "5"))

----
\* What C15 counts.

\* the sleeps of call c that are over
DelaysPerformed(c) == Len(sleeps[c]) - (IF pc[c] = "sleep" THEN 1 ELSE 0)

\* a sleep of call c is running, or is over with the next request not yet sent
AfterDelay(c) ==
    \/ pc[c] = "sleep"
    \/ pc[c] = "for" /\ Len(requests[c]) >= 1
           /\ DelaysPerformed(c) = Len(requests[c])

\* a delay is not the last thing a call does: a request is still to come
\* after it, and a step out of a sleep does not end the call
DelayThenRequest(c) ==
    /\ AfterDelay(c) => Len(requests[c]) < args[c].retry_attempts
    /\ Done(c) => ~(Len(requests[c]) >= 1 /\ DelaysPerformed(c) = Len(requests[c]))

\* C15 as stated: in every state of a call that has made a request, the
\* requests made are at most retry_attempts, the delays performed are at most
\* the requests made minus one, and no call ends directly after a delay.
\* (Before the first request both numbers are 0, and "requests minus one" is
\* below the delays as well.)
C15_AsStated ==
    \A c \in Calls :
        Len(requests[c]) >= 1 =>
            /\ Len(requests[c]) <= args[c].retry_attempts
            /\ DelaysPerformed(c) <= Len(requests[c]) - 1
            /\ DelayThenRequest(c)

\* C15, amended: in every state of a call the requests made are at most
\* retry_attempts; the delays performed are at most the requests made, and at
\* most the requests made minus one while a request is outstanding, while a
\* sleep is running and once the call has ended after a request; they are 0
\* before the first request; no call ends directly after a delay.
C15_Counts ==
    \A c \in Calls :
        /\ Len(requests[c]) <= args[c].retry_attempts
        /\ DelaysPerformed(c) >= 0
        /\ DelaysPerformed(c) <= Len(requests[c])
        /\ (Len(requests[c]) >= 1 /\ pc[c] \in {"request", "sleep", "done"}) =>
               DelaysPerformed(c) <= Len(requests[c]) - 1
        /\ Len(requests[c]) = 0 => DelaysPerformed(c) = 0
        /\ DelayThenRequest(c)

\* a delay is over and the request after it is not sent yet
C15_Witness ==
    \E c \in Calls :
        /\ pc[c] = "for"
        /\ Len(requests[c]) = 2
        /\ DelaysPerformed(c) = 2
        /\ args[c].retry_attempts = 3

\* the call has ended with one delay less than requests
C15_WitnessEnded ==
    \E c \in Calls :
        /\ Done(c)
        /\ Len(requests[c]) = 3
        /\ DelaysPerformed(c) = 2

----
\* The scheduling a call runs under: the event loop runs a coroutine that can
\* go on (Publish, Request, Exhausted), every sleep ends (Wake), and the
\* transport answers or fails every request (TransportAnswers).

TransportAnswers(c) ==
    \/ \E data \in AckBodies : Reply(c, data)
    \/ NoResponders(c)
    \/ \E err \in OtherErrors : TransportError(c, err)

Fairness ==
    /\ WF_vars(\E c \in Calls : Publish(c))
    /\ WF_vars(\E c \in Calls : Request(c))
    /\ WF_vars(\E c \in Calls : Exhausted(c))
    /\ WF_vars(\E c \in Calls : Wake(c))
    /\ WF_vars(\E c \in Calls : TransportAnswers(c))

\* one publish call under that scheduling
SpecFair == Init /\ [][Next]_vars /\ Fairness

\* the four ways a call ends
ReturnedAck(c) == ~IsNone(returned[c]) /\ IsNone(raised[c])

RaisedInvalidAck(c) == IsNone(returned[c]) /\ raised[c] = Some("InvalidAckError")

RaisedTransportError(c) ==
    IsNone(returned[c]) /\ \E err \in OtherErrors : raised[c] = Some(err)

RaisedNoStreamResponse(c) ==
    IsNone(returned[c]) /\ raised[c] = Some("NoStreamResponseError")

\* exactly one of the four
OneOutcome(c) ==
    Cardinality({ i \in 1 .. 4 :
        \/ i = 1 /\ ReturnedAck(c)
        \/ i = 2 /\ RaisedInvalidAck(c)
        \/ i = 3 /\ RaisedTransportError(c)
        \/ i = 4 /\ RaisedNoStreamResponse(c) }) = 1

\* C16: when the transport answers or fails every request and every sleep
\* ends, every call ends, and it ends in exactly one of: a returned PubAck,
\* InvalidAckError, the transport's error, NoStreamResponseError.
C16_EveryCallEnds ==
    /\ <>(\A c \in Calls : Done(c) /\ OneOutcome(c))
    /\ [](\A c \in Calls : Done(c) => OneOutcome(c))
    /\ [](\A c \in Calls : ~Done(c) => (IsNone(returned[c]) /\ IsNone(raised[c])))

\* a call that went through two sleeps has ended with an ack
C16_Witness ==
    \E c \in Calls :
        /\ Done(c)
        /\ Len(sleeps[c]) = 2
        /\ Len(requests[c]) = 3
        /\ ReturnedAck(c)
        /\ OneOutcome(c)

====
